---- MODULE Spec2Model ----
(***************************************************************************)
(* Model of the jolly_scraper repository:                                  *)
(*   scoring.py        parse_price, compute_base_score, compute_final_score*)
(*   pipelines.py      ScorePipeline (process_item, close_spider)          *)
(*   jolly_selenium.py JollyTurSeleniumDriver (select_dates,               *)
(*                     adjust_room_count, the load-more loop)              *)
(*   jolly_spider.py   JollySpider.parse / parse_hotel_details             *)
(*                                                                         *)
(* Python strings are sequences of one-character strings.  Python floats   *)
(* are exact rationals n/d plus the special values nan, inf and -inf;      *)
(* binary rounding of the mantissa is not modelled.                        *)
(***************************************************************************)
EXTENDS Integers, Sequences, FiniteSets, TLC

VARIABLES
    \* ---- scoring.py, parse_price applied to one input
    price_str,      \* the argument of parse_price
    price_out,      \* outcome of parse_price, or Pending
    \* ---- scoring.py, compute_base_score / compute_final_score on one hotel
    hotel,          \* the dict passed to the scoring functions
    base_out,       \* outcome of compute_base_score(hotel), or Pending
    final_out,      \* outcome of compute_final_score(hotel), or Pending
    \* ---- pipelines.py, ScorePipeline
    hotels,         \* self.hotels
    top_10_hotels,  \* the list close_spider writes to the output file
    pipeline,       \* "open", "closed" (file written) or "raised"
    \* ---- jolly_spider.py, JollySpider.parse
    pc,             \* the statement parse() is at
    failed_at,      \* the step whose exception left parse(), or "none"
    hotel_urls,     \* len(hotel_urls), -1 before the list page is read
    visited,        \* detail pages opened so far
    yielded,        \* records yielded so far
    quit,           \* bot.close() has run
    detail_data,    \* what parse_hotel_details gave for each url visited
    \* ---- jolly_selenium.py, scroll_and_click_until_all_displayed
    lpc,            \* the statement the loader is at
    exit,           \* why the loader's loop ended, or "none"
    found,          \* find_element located the status element
    in_view,        \* result of the last is_in_viewport call
    scroll_count,   \* local of scroll_until_element_visible
    scrolled_px,    \* pixels scrolled by the current visibility search
    seen,           \* the status texts read so far, one per iteration
    clicks,         \* load-more activations so far
    click_failed,   \* locating or clicking the load-more control raised
    page,           \* how the result page behaves during the loader
    \* ---- jolly_selenium.py, adjust_room_count
    apc,            \* the statement adjust_room_count is at
    requested,      \* the argument adult_count
    adult_count,    \* the local adult_count, after the cap
    displayed,      \* the count the control shows
    initial_count,  \* the count the control showed when the dropdown opened
    current_adult_count,  \* the local read from the control
    inc_done,       \* iterations of the for loop completed
    adult_clicks,   \* the clicks on the dec/inc buttons, in order
    \* ---- jolly_selenium.py, select_dates
    dpc,            \* the statement select_dates is at
    target,         \* <<target_month, target_year>>
    calendar,       \* months the calendar has been paged forward
    current,        \* <<current_month, current_year>> read from the header
    day_clicks      \* the day cells clicked, with the header shown then

vars == <<price_str, price_out, hotel, base_out, final_out,
          hotels, top_10_hotels, pipeline,
          pc, failed_at, hotel_urls, visited, yielded, quit, detail_data,
          lpc, exit, found, in_view, scroll_count, scrolled_px, seen, clicks,
          click_failed, page,
          apc, requested, adult_count, displayed, initial_count,
          current_adult_count, inc_done, adult_clicks,
          dpc, target, calendar, current, day_clicks>>

(***************************************************************************)
(* Python values                                                           *)
(***************************************************************************)
Str(s)   == [k |-> "str", s |-> s]
None     == [k |-> "none", s |-> <<>>]
Missing  == [k |-> "missing", s |-> <<>>]      \* the key is not in the dict

\* a float: t = "num" is the finite value n/d; an outcome may also be an
\* exception leaving the function (t = "raised", e its type)
Num(n, d) == [t |-> "num", n |-> n, d |-> d, e |-> ""]
NaN      == [t |-> "nan", n |-> 0, d |-> 1, e |-> ""]
PosInf   == [t |-> "inf", n |-> 1, d |-> 1, e |-> ""]
NegInf   == [t |-> "inf", n |-> -1, d |-> 1, e |-> ""]
Raised(e) == [t |-> "raised", n |-> 0, d |-> 1, e |-> e]
Pending  == [t |-> "pending", n |-> 0, d |-> 1, e |-> ""]
Zero     == Num(0, 1)

Abs(x) == IF x < 0 THEN -x ELSE x

RECURSIVE Gcd(_, _)
Gcd(a, b) == IF b = 0 THEN a ELSE Gcd(b, a % b)

\* the rational n/d in lowest terms with a positive denominator
Rat(n, d) ==
    LET g == Gcd(Abs(n), Abs(d))
        s == IF d < 0 THEN -1 ELSE 1
    IN  Num((s * n) \div g, (s * d) \div g)

(***************************************************************************)
(* str methods                                                             *)
(***************************************************************************)
Whitespace == {" ", "\t"}

\* s[i..] starts with pat
StartsAt(s, pat, i) ==
    /\ i + Len(pat) - 1 <= Len(s)
    /\ \A j \in 1..Len(pat) : s[i + j - 1] = pat[j]

\* pat in s
Contains(pat, s) == \E i \in 1..(Len(s) + 1) : StartsAt(s, pat, i)

\* s.replace(pat, rep): every non-overlapping occurrence, left to right
RECURSIVE ReplaceFrom(_, _, _, _)
ReplaceFrom(s, pat, rep, i) ==
    IF i > Len(s) THEN <<>>
    ELSE IF StartsAt(s, pat, i)
         THEN rep \o ReplaceFrom(s, pat, rep, i + Len(pat))
         ELSE <<s[i]>> \o ReplaceFrom(s, pat, rep, i + 1)

Replace(s, pat, rep) == ReplaceFrom(s, pat, rep, 1)

RECURSIVE LStrip(_)
LStrip(s) ==
    IF s # <<>> /\ Head(s) \in Whitespace THEN LStrip(Tail(s)) ELSE s

RECURSIVE RStrip(_)
RStrip(s) ==
    IF s # <<>> /\ s[Len(s)] \in Whitespace
    THEN RStrip(SubSeq(s, 1, Len(s) - 1)) ELSE s

\* s.strip()
Strip(s) == RStrip(LStrip(s))

\* s.split(sep) for a one-character separator: always at least one part
RECURSIVE SplitAcc(_, _, _)
SplitAcc(s, sep, cur) ==
    IF s = <<>> THEN <<cur>>
    ELSE IF Head(s) = sep
         THEN <<cur>> \o SplitAcc(Tail(s), sep, <<>>)
         ELSE SplitAcc(Tail(s), sep, Append(cur, Head(s)))

Split(s, sep) == SplitAcc(s, sep, <<>>)

\* "".join(parts)
RECURSIVE Join(_)
Join(parts) == IF parts = <<>> THEN <<>> ELSE Head(parts) \o Join(Tail(parts))

\* str.lower() of one character, by the Unicode default (not the Turkish)
\* case mapping: "I" gives "i" and the dotted capital gives "i" followed by
\* the combining dot above
LowerChar(c) ==
    CASE c = "A" -> <<"a">> [] c = "B" -> <<"b">> [] c = "D" -> <<"d">>
      [] c = "E" -> <<"e">> [] c = "F" -> <<"f">> [] c = "G" -> <<"g">>
      [] c = "H" -> <<"h">> [] c = "I" -> <<"i">> [] c = "K" -> <<"k">>
      [] c = "L" -> <<"l">> [] c = "M" -> <<"m">> [] c = "N" -> <<"n">>
      [] c = "O" -> <<"o">> [] c = "P" -> <<"p">> [] c = "R" -> <<"r">>
      [] c = "S" -> <<"s">> [] c = "T" -> <<"t">> [] c = "U" -> <<"u">>
      [] c = "V" -> <<"v">> [] c = "Y" -> <<"y">> [] c = "Z" -> <<"z">>
      [] c = "S-cedilla" -> <<"s-cedilla">> [] c = "O-uml" -> <<"o-uml">> [] c = "U-uml" -> <<"u-uml">>
      [] c = "I-dotted" -> <<"i", "dot-above">>
      [] OTHER -> <<c>>

RECURSIVE Lower(_)
Lower(s) == IF s = <<>> THEN <<>> ELSE LowerChar(Head(s)) \o Lower(Tail(s))

(***************************************************************************)
(* float(str)                                                              *)
(***************************************************************************)
DigitChars == {"0", "1", "2", "3", "4", "5", "6", "7", "8", "9"}

DigitVal(c) ==
    CASE c = "0" -> 0 [] c = "1" -> 1 [] c = "2" -> 2 [] c = "3" -> 3
      [] c = "4" -> 4 [] c = "5" -> 5 [] c = "6" -> 6 [] c = "7" -> 7
      [] c = "8" -> 8 [] c = "9" -> 9

RECURSIVE DigitsVal(_)
DigitsVal(ds) ==
    IF ds = <<>> THEN 0
    ELSE 10 * DigitsVal(SubSeq(ds, 1, Len(ds) - 1)) + DigitVal(ds[Len(ds)])

RECURSIVE Pow10(_)
Pow10(k) == IF k = 0 THEN 1 ELSE 10 * Pow10(k - 1)

AllDigits(s) == \A i \in 1..Len(s) : s[i] \in DigitChars

\* float(s).  The texts of this model hold no exponent marker, underscore or
\* non-ASCII digit, the other forms float() accepts.
PyFloat(s) ==
    LET t    == Strip(s)
        neg  == t # <<>> /\ Head(t) = "-"
        body == IF t # <<>> /\ Head(t) \in {"+", "-"} THEN Tail(t) ELSE t
        low  == Lower(body)
        ps   == Split(body, ".")
        ip   == ps[1]
        fp   == IF Len(ps) = 2 THEN ps[2] ELSE <<>>
        sg   == IF neg THEN -1 ELSE 1
    IN  IF low = <<"n", "a", "n">> THEN NaN
        ELSE IF low \in {<<"i", "n", "f">>,
                         <<"i", "n", "f", "i", "n", "i", "t", "y">>}
             THEN (IF neg THEN NegInf ELSE PosInf)
        ELSE IF /\ Len(ps) <= 2
                /\ AllDigits(ip) /\ AllDigits(fp)
                /\ Len(ip) + Len(fp) >= 1
             THEN Rat(sg * DigitsVal(ip \o fp), Pow10(Len(fp)))
        ELSE Raised("ValueError")

(***************************************************************************)
(* scoring.py: parse_price                                                 *)
(***************************************************************************)
\* `not x` for a str or None
Falsy(v) == v.k \in {"none", "missing"} \/ v.s = <<>>

\* the slip of reading the comma-converted text without joining the
\* thousands groups
CleanedKeepDots(text) ==
    Replace(Strip(Replace(text, <<" ", "T", "L">>, <<>>)), <<",">>, <<".">>)

\* lines 17-30: the text handed to float()
Cleaned(text) ==
    LET a     == Strip(Replace(text, <<" ", "T", "L">>, <<>>))
        b     == Replace(a, <<",">>, <<".">>)
        parts == Split(b, ".")
    IN  IF Len(parts) > 1
        THEN Join(SubSeq(parts, 1, Len(parts) - 1)) \o <<".">> \o parts[Len(parts)]
        ELSE parts[1]

\* the slip of leaving out the try/except around float()
parse_price_unguarded(p) ==
    IF Falsy(p) THEN Zero ELSE PyFloat(Cleaned(p.s))

parse_price(p) ==
    IF Falsy(p) THEN Zero
    ELSE LET f == PyFloat(Cleaned(p.s))
         IN  IF f.t = "raised" THEN Zero ELSE f

(***************************************************************************)
(* float arithmetic used by the scorer                                     *)
(***************************************************************************)
\* a + b for finite a, b
FAdd(a, b) == Rat(a.n * b.d + b.n * a.d, a.d * b.d)

\* x <= 0: false for nan
FLeZero(x) == (x.t = "num" /\ x.n <= 0) \/ x = NegInf

\* x > 0: false for nan
FGtZero(x) == (x.t = "num" /\ x.n > 0) \/ x = PosInf

\* a / b for a finite a
FDiv(a, b) ==
    CASE b.t = "nan" -> NaN
      [] b.t = "inf" -> Zero
      [] b.t = "num" /\ b.n = 0 -> Raised("ZeroDivisionError")
      [] OTHER -> Rat(a.n * b.d, a.d * b.n)

(***************************************************************************)
(* scoring.py: compute_base_score, compute_final_score                     *)
(***************************************************************************)
RISKSIZ == <<"R", "i", "s", "k", "s", "i", "z", " ",
             "r", "e", "z", "e", "r", "v", "a", "s", "y", "o", "n">>
ULTRA_HER_SEY == <<"u", "l", "t", "r", "a", " ", "h", "e", "r", " ",
                   "s-cedilla", "e", "y", " ", "d", "a", "h", "i", "l">>
HER_SEY == <<"h", "e", "r", " ", "s-cedilla", "e", "y", " ", "d", "a", "h", "i", "l">>
YARIM_PANSIYON == <<"y", "a", "r", "i-dotless", "m", " ",
                    "p", "a", "n", "s", "i", "y", "o", "n">>
ODA_KAHVALTI == <<"o", "d", "a", " ", "k", "a", "h", "v", "a", "l", "t", "i-dotless">>
SADECE_ODA == <<"s", "a", "d", "e", "c", "e", " ", "o", "d", "a">>

\* hotel.get(key, default)
Get(v, default) == IF v.k = "missing" THEN default ELSE v

\* the slip of testing "her sey dahil" before "ultra her sey dahil"
AccomScoreShadowed(accom) ==
    IF Contains(HER_SEY, accom) THEN Rat(15, 10)
    ELSE IF Contains(ULTRA_HER_SEY, accom) THEN Rat(2, 1)
    ELSE IF Contains(YARIM_PANSIYON, accom) THEN Rat(1, 1)
    ELSE IF Contains(ODA_KAHVALTI, accom) THEN Rat(5, 10)
    ELSE IF Contains(SADECE_ODA, accom) THEN Rat(3, 10)
    ELSE Zero

\* lines 66-75: the if/elif chain over the lower-cased category
AccomScore(accom) ==
    IF Contains(ULTRA_HER_SEY, accom) THEN Rat(2, 1)
    ELSE IF Contains(HER_SEY, accom) THEN Rat(15, 10)
    ELSE IF Contains(YARIM_PANSIYON, accom) THEN Rat(1, 1)
    ELSE IF Contains(ODA_KAHVALTI, accom) THEN Rat(5, 10)
    ELSE IF Contains(SADECE_ODA, accom) THEN Rat(3, 10)
    ELSE Zero

compute_base_score(h) ==
    LET cancel_policy == Get(h.cancel_policy, Str(<<>>))
        features_str  == Get(h.hotel_features, Str(<<>>))
        accom_raw     == Get(h.accommodation_types, Str(<<>>))
        s0 == Zero
        s1 == IF Contains(RISKSIZ, cancel_policy.s) THEN FAdd(s0, Rat(1, 1)) ELSE s0
        s2 == IF Get(h.recomended_hotel, None).k # "none"
              THEN FAdd(s1, Rat(1, 1)) ELSE s1
        s3 == IF ~Falsy(features_str)
              THEN FAdd(s2, Rat(5 * Len(Split(features_str.s, ",")), 100))
              ELSE s2
        s4 == FAdd(s3, AccomScore(Lower(Strip(accom_raw.s))))
    IN  IF cancel_policy.k = "none" THEN Raised("TypeError")
        ELSE IF accom_raw.k = "none" THEN Raised("AttributeError")
        ELSE s4

\* the slip of replacing only a zero price, not a negative one
price_val_zero_only(h) ==
    LET p == parse_price(Get(h.price, Str(<<>>)))
    IN  IF p = Zero THEN Rat(1, 1) ELSE p

\* lines 86-91: the divisor of the final score
price_val(h) ==
    LET p == parse_price(Get(h.price, Str(<<>>)))
    IN  IF FLeZero(p) THEN Rat(1, 1) ELSE p

compute_final_score(h) ==
    LET base_score == compute_base_score(h)
    IN  IF base_score.t = "raised" THEN base_score
        ELSE FDiv(base_score, price_val(h))

(***************************************************************************)
(* Inputs of the pure functions                                            *)
(***************************************************************************)
MaxGroups == 1       \* thousands groups after the leading digit
MaxShort == 3        \* length of the exhaustively enumerated short texts
MaxFeatures == 3     \* tokens of a generated feature list

PriceDigits == {"0", "1", "9"}
ShortChars == {"1", ".", ",", " ", "-", "a"}

TL == <<" ", "T", "L">>

RECURSIVE DotGroups(_)
DotGroups(gs) ==
    IF gs = <<>> THEN <<>> ELSE <<".">> \o Head(gs) \o DotGroups(Tail(gs))

\* the text "D.DDD,DD TL"
BuildPrice(lead, gs, frac) == lead \o DotGroups(gs) \o <<",">> \o frac \o TL

PatternTexts ==
    { BuildPrice(lead, gs, frac) :
        lead \in [1..1 -> PriceDigits],
        gs \in UNION { [1..k -> [1..3 -> PriceDigits]] : k \in 0..MaxGroups },
        frac \in [1..2 -> PriceDigits] }

PlainTexts == UNION { [1..k -> PriceDigits] : k \in 1..3 }

ShortTexts == UNION { [1..k -> ShortChars] : k \in 0..MaxShort }

CuratedTexts ==
    { <<"4", "3", ".", "9", "9", "0", ",", "0", "0", " ", "T", "L">>,
      <<"4", "3", ".", "9", "9", "0", ",", "0", "0", "T", "L">>,
      <<"4", "3", ".", "9", "9", "0", " ", "T", "L">>,
      <<"0", " ", "T", "L">>,
      <<"0", ",", "0", "0", " ", "T", "L">>,
      <<"-", "5", ",", "5", "0", " ", "T", "L">>,
      <<"a", "b", "c">>,
      <<"n", "a", "n">>,
      <<"N", "a", "N", " ", "T", "L">>,
      <<"i", "n", "f">>,
      <<"-", "i", "n", "f">>,
      <<"I", "n", "f", "i", "n", "i", "t", "y">>,
      <<" ", "T", "L">>,
      <<"T", "L">>,
      <<"+", "7">>,
      <<"7", ".">>,
      <<" ", "2", "5", "0", ",", "5", " ", "T", "L", " ">> }

PriceInputs ==
    {None} \cup { Str(t) : t \in PatternTexts \cup PlainTexts \cup ShortTexts \cup CuratedTexts }

\* the prices of the hotels handed to the scorer
HotelPrices ==
    { Missing, None, Str(<<>>),
      Str(<<"0", " ", "T", "L">>),
      Str(<<"-", "5", ",", "5", "0", " ", "T", "L">>),
      Str(<<"a", "b", "c">>),
      Str(<<"n", "a", "n">>),
      Str(<<"i", "n", "f">>),
      Str(<<"-", "i", "n", "f">>),
      Str(<<"1", "0", "0">>),
      Str(<<"0", ",", "5", "0", " ", "T", "L">>),
      Str(<<"4", "3", ".", "9", "9", "0", ",", "0", "0", " ", "T", "L">>) }

CancelPolicies ==
    { Missing, None, Str(<<>>),
      Str(RISKSIZ \o <<" ", "d", "a", "h", "i", "l">>),
      Str(Lower(RISKSIZ)) }

Recommendations == { Missing, None, Str(<<>>), Str(<<"x">>) }

RECURSIVE FeatureText(_)
FeatureText(k) ==
    IF k = 1 THEN <<"W", "i", "f", "i">>
    ELSE FeatureText(k - 1) \o <<",", " ", "P", "o", "o", "l">>

FeatureLists ==
    { Missing, None, Str(<<>>), Str(<<",">>) }
        \cup { Str(FeatureText(k)) : k \in 1..MaxFeatures }

Categories ==
    { Missing, None, Str(<<>>),
      Str(<<"U", "l", "t", "r", "a", " ", "H", "e", "r", " ",
            "S-cedilla", "e", "y", " ", "D", "a", "h", "i", "l">>),
      Str(<<"H", "e", "r", " ", "S-cedilla", "e", "y", " ", "D", "a", "h", "i", "l">>),
      Str(<<"Y", "a", "r", "i-dotless", "m", " ", "P", "a", "n", "s", "i", "y", "o", "n">>),
      Str(<<"O", "d", "a", " ", "K", "a", "h", "v", "a", "l", "t", "i-dotless">>),
      Str(<<" ", "S", "a", "d", "e", "c", "e", " ", "O", "d", "a", " ">>),
      Str(<<"T", "a", "m", " ", "P", "a", "n", "s", "i", "y", "o", "n">>),
      Str(<<"H", "e", "r", " ", "S-cedilla", "e", "y", " ", "D", "a", "h", "i", "l",
            "O", "d", "a", " ", "K", "a", "h", "v", "a", "l", "t", "i-dotless">>),
      Str(<<"S", "a", "d", "e", "c", "e", " ", "O", "d", "a",
            "Y", "a", "r", "i-dotless", "m", " ", "P", "a", "n", "s", "i", "y", "o", "n">>),
      Str(<<"Y", "A", "R", "I", "M", " ", "P", "A", "N", "S", "I-dotted", "Y", "O", "N">>) }

Hotels ==
    [ price : HotelPrices,
      cancel_policy : CancelPolicies,
      recomended_hotel : Recommendations,
      hotel_features : FeatureLists,
      accommodation_types : Categories ]

NoHotel ==
    [ price |-> Missing, cancel_policy |-> Missing, recomended_hotel |-> Missing,
      hotel_features |-> Missing, accommodation_types |-> Missing ]

(***************************************************************************)
(* parse_price applied to one input                                        *)
(***************************************************************************)
scoreVars == <<hotel, base_out, final_out>>
priceVars == <<price_str, price_out>>
rankVars  == <<hotels, top_10_hotels, pipeline>>
parseVars == <<pc, failed_at, hotel_urls, visited, yielded, quit, detail_data>>
loaderVars == <<lpc, exit, found, in_view, scroll_count, scrolled_px, seen,
                clicks, click_failed>>
adultVars == <<apc, requested, adult_count, displayed, initial_count,
               current_adult_count, inc_done, adult_clicks>>
dateVars  == <<dpc, target, calendar, current, day_clicks>>
stepVars  == <<adultVars, dateVars>>
runVars   == <<parseVars, loaderVars, page, stepVars>>

\* how the result page answers the loader: "any" answers every call
\* arbitrarily; "endless" keeps the status in the viewport, never shows the
\* completion phrase and keeps the load-more control clickable; "completing"
\* shows the completion phrase from the from-th reading of the status on
Page(kind, from) == [kind |-> kind, from |-> from]
IdlePage == Page("idle", 0)
AnyPage == Page("any", 0)
EndlessPage == Page("endless", 0)

IdleRank == hotels = <<>> /\ top_10_hotels = <<>> /\ pipeline = "idle"
IdleScore == hotel = NoHotel /\ base_out = Pending /\ final_out = Pending
IdlePrice == price_str = None /\ price_out = Pending
IdleLoader ==
    /\ lpc = "idle" /\ exit = "none" /\ found = FALSE /\ in_view = FALSE
    /\ scroll_count = 0 /\ scrolled_px = 0 /\ seen = <<>> /\ clicks = 0
    /\ click_failed = FALSE
IdleAdults ==
    /\ apc = "idle" /\ requested = 0 /\ adult_count = 0 /\ displayed = 0
    /\ initial_count = 0
    /\ current_adult_count = 0 /\ inc_done = 0 /\ adult_clicks = <<>>
IdleDates ==
    /\ dpc = "idle" /\ target = <<"", "">> /\ calendar = 0
    /\ current = <<"", "">> /\ day_clicks = <<>>
IdleParse ==
    /\ pc = "idle" /\ failed_at = "none" /\ hotel_urls = -1 /\ visited = 0
    /\ yielded = 0 /\ quit = FALSE /\ detail_data = <<>>
IdleRun ==
    /\ IdleParse
    /\ IdleLoader /\ page = IdlePage
    /\ IdleAdults /\ IdleDates

InitPrice ==
    /\ price_str \in PriceInputs
    /\ price_out = Pending
    /\ IdleScore /\ IdleRank /\ IdleRun

ParsePrice ==
    /\ price_out = Pending
    /\ price_out' = parse_price(price_str)
    /\ UNCHANGED <<price_str, scoreVars, rankVars, runVars>>

NextPrice == ParsePrice

SpecPrice == InitPrice /\ [][NextPrice]_vars

(***************************************************************************)
(* the scorer applied to one hotel                                         *)
(***************************************************************************)
InitScore ==
    /\ hotel \in Hotels
    /\ base_out = Pending /\ final_out = Pending
    /\ IdlePrice /\ IdleRank /\ IdleRun

ComputeBaseScore ==
    /\ base_out = Pending
    /\ base_out' = compute_base_score(hotel)
    /\ UNCHANGED <<hotel, final_out, priceVars, rankVars, runVars>>

ComputeFinalScore ==
    /\ final_out = Pending
    /\ final_out' = compute_final_score(hotel)
    /\ UNCHANGED <<hotel, base_out, priceVars, rankVars, runVars>>

NextScore == ComputeBaseScore \/ ComputeFinalScore

SpecScore == InitScore /\ [][NextScore]_vars

(***************************************************************************)
(* sorted(..., key=..., reverse=True): list.sort of CPython for a list of  *)
(* fewer than 64 elements.  The list is reversed, its leading run is       *)
(* found (and reversed if strictly descending), the remaining elements are *)
(* inserted by binary insertion, and the list is reversed again.  Every    *)
(* comparison is key(a) < key(b), which is false when either key is nan.   *)
(***************************************************************************)
\* a < b on floats
FLt(a, b) ==
    CASE a.t = "nan" \/ b.t = "nan" -> FALSE
      [] a.t = "inf" /\ b.t = "inf" -> a.n < b.n
      [] a.t = "inf" -> a.n < 0
      [] b.t = "inf" -> b.n > 0
      [] OTHER -> a.n * b.d < b.n * a.d

Reverse(s) == [i \in 1..Len(s) |-> s[Len(s) + 1 - i]]

Key(x) == x.final_score

\* count_run: the length of the run that starts the list, from n elements
\* already known to belong to it
RECURSIVE RunLength(_, _, _)
RunLength(s, n, descending) ==
    IF n >= Len(s) THEN Len(s)
    ELSE IF FLt(Key(s[n + 1]), Key(s[n])) = descending
         THEN RunLength(s, n + 1, descending)
         ELSE n

\* binarysort: the place of pivot among the sorted s[1..r], searched in the
\* 0-based half-open interval [l, r)
RECURSIVE InsertAt(_, _, _, _)
InsertAt(s, pivot, l, r) ==
    IF l >= r THEN l
    ELSE LET p == l + ((r - l) \div 2)
         IN  IF FLt(Key(pivot), Key(s[p + 1]))
             THEN InsertAt(s, pivot, l, p)
             ELSE InsertAt(s, pivot, p + 1, r)

\* binarysort: s[1..start] is sorted, the rest is inserted one by one
RECURSIVE BinarySort(_, _)
BinarySort(s, start) ==
    IF start >= Len(s) THEN s
    ELSE LET pivot == s[start + 1]
             l     == InsertAt(s, pivot, 0, start)
             t     == SubSeq(s, 1, l) \o <<pivot>> \o SubSeq(s, l + 1, start)
                          \o SubSeq(s, start + 2, Len(s))
         IN  BinarySort(t, start + 1)

\* list.sort() ascending
ListSort(s) ==
    IF Len(s) < 2 THEN s
    ELSE LET descending == FLt(Key(s[2]), Key(s[1]))
             n   == RunLength(s, 2, descending)
             run == IF descending THEN Reverse(SubSeq(s, 1, n)) ELSE SubSeq(s, 1, n)
         IN  BinarySort(run \o SubSeq(s, n + 1, Len(s)), n)

\* sorted(s, key=lambda x: x["final_score"], reverse=True)
SortedReverse(s) == Reverse(ListSort(Reverse(s)))

(***************************************************************************)
(* pipelines.py: ScorePipeline                                             *)
(***************************************************************************)
MaxItems == 11       \* items the spider yields in one run
MaxOddPrices == 2    \* of which this many show a price other than UsualPrice

TOP_N == 10

Min(a, b) == IF a < b THEN a ELSE b

\* the slip of slicing one short
TopSliceShort(s) == SubSeq(s, 1, Min(TOP_N - 1, Len(s)))

\* line 64: hotels_sorted[:10]
TopSlice(s) == SubSeq(s, 1, Min(TOP_N, Len(s)))

\* the records parse_hotel_details can yield, told apart by their url; the
\* price is whatever text the page shows
UsualPrice == <<"1", "0", "0">>
RankPrices == { UsualPrice, <<"1">>, <<"n", "a", "n">> }

RankItem(url, price) ==
    [ detail_page_url |-> url,
      price |-> Str(price),
      cancel_policy |-> Str(<<>>),
      recomended_hotel |-> None,
      hotel_features |-> Str(<<"W", "i", "f", "i">>),
      accommodation_types |-> Str(<<>>),
      final_score |-> Pending ]

InitRank ==
    /\ hotels = <<>>
    /\ top_10_hotels = <<>>
    /\ pipeline = "open"
    /\ IdlePrice /\ IdleScore /\ IdleRun

\* process_item: self.hotels.append(dict(item))
ProcessItem ==
    /\ pipeline = "open"
    /\ Len(hotels) < MaxItems
    /\ \E price \in RankPrices :
           /\ \/ price = UsualPrice
              \/ Cardinality({ i \in 1..Len(hotels) :
                                 hotels[i].price # Str(UsualPrice) }) < MaxOddPrices
           /\ hotels' = Append(hotels, RankItem(Len(hotels) + 1, price))
    /\ UNCHANGED <<top_10_hotels, pipeline, priceVars, scoreVars, runVars>>

\* lines 53-54: the loop that scores every hotel in place.  An exception of
\* compute_final_score leaves the loop at the first hotel that raises it,
\* the earlier hotels already scored.
ScoreAll(hs) ==
    LET bad   == { i \in 1..Len(hs) : compute_final_score(hs[i]).t = "raised" }
        first == IF bad = {} THEN Len(hs) + 1
                 ELSE CHOOSE i \in bad : \A j \in bad : i <= j
    IN  [i \in 1..Len(hs) |->
            IF i < first
            THEN [hs[i] EXCEPT !.final_score = compute_final_score(hs[i])]
            ELSE hs[i]]

\* close_spider: score, sort, slice, write
CloseSpider ==
    /\ pipeline = "open"
    /\ hotels' = ScoreAll(hotels)
    /\ IF \A i \in 1..Len(hotels) : hotels'[i].final_score # Pending
       THEN /\ top_10_hotels' = TopSlice(SortedReverse(hotels'))
            /\ pipeline' = "closed"
       ELSE /\ top_10_hotels' = <<>>
            /\ pipeline' = "raised"
    /\ UNCHANGED <<priceVars, scoreVars, runVars>>

NextRank == ProcessItem \/ CloseSpider

SpecRank == InitRank /\ [][NextRank]_vars

(***************************************************************************)
(* jolly_selenium.py: scroll_and_click_until_all_displayed                 *)
(*                                                                         *)
(* The page is the environment: whether the status element exists and is   *)
(* in the viewport, the text it shows and whether the load-more control    *)
(* can be clicked are chosen anew at every call.  A WebDriver call outside *)
(* a try block may raise, which leaves the loader and parse().             *)
(***************************************************************************)
MaxChecks == 3       \* iterations of the loader's loop that are explored
MaxUrls == 2         \* listings on the result page

MAX_SCROLLS == 50
SCROLL_STEP == 550

COMPLETION == <<"t", "a", "m", "a", "m", "i-dotless", "n", "i-dotless", " ",
                "g", "o-uml", "r", "u-uml", "n", "t", "u-uml",
                "l", "e", "d", "i", "n", "i", "z">>

\* the texts the status element may show
StatusTexts ==
    << <<"l", "o", "a", "d", "i", "n", "g">>,
       <<"1", "2", "0", " ", "o", "t", "e", "l", "d", "e", "n", " ", "2", "0", " ",
         "t", "a", "n", "e", "s", "i", "n", "i", " ",
         "g", "o-uml", "r", "u-uml", "n", "t", "u-uml", "l", "e", "d", "i", "n", "i", "z">>,
       <<"O", "t", "e", "l", "l", "e", "r", "i", "n", " ",
         "t", "a", "m", "a", "m", "i-dotless", "n", "i-dotless", " ",
         "g", "o-uml", "r", "u-uml", "n", "t", "u-uml", "l", "e", "d", "i", "n", "i", "z", ".">>,
       <<" ", "T", "a", "m", "a", "m", "i-dotless", "n", "i-dotless", " ",
         "G", "o-uml", "r", "u-uml", "n", "t", "u-uml", "l", "e", "d", "i", "n", "i", "z", " ">>,
       <<"T", "A", "M", "A", "M", "I", "N", "I", " ",
         "G", "O-uml", "R", "U-uml", "N", "T", "U-uml", "L", "E", "D", "I-dotted", "N", "I-dotted", "Z">> >>

\* the slip of testing the text as read, without strip().lower()
AllDisplayedRaw(text) == Contains(COMPLETION, text)

\* lines 275-279: "tamamini goruntulediniz" in status_element.text.strip().lower()
AllDisplayed(text) == Contains(COMPLETION, Lower(Strip(text)))

\* the slip of a loop guard that is off by one
ScrollAgainOffByOne(visible, count) == ~visible /\ count <= MAX_SCROLLS

\* line 259: the guard of the scroll loop
ScrollAgain(visible, count) == ~visible /\ count < MAX_SCROLLS

\* the slip of letting the click's exception leave the loop
ClickFailureRaises == "raised"

\* lines 288-290: except Exception: print, break
ClickFailure == "stuck"

\* the status texts on which the test of lines 275-279 succeeds
CompleteTexts == { t \in 1..Len(StatusTexts) : AllDisplayed(StatusTexts[t]) }

\* line 253: whether find_element locates the status element
StatusFound(p) == IF p.kind = "endless" THEN {TRUE} ELSE BOOLEAN

\* lines 230-245: what is_in_viewport gives, or that the script call raises
ViewportOutcomes(p) ==
    IF p.kind = "endless" THEN {"visible"} ELSE {"visible", "hidden", "raise"}

\* line 275: the texts status_element.text may give at the k-th reading
TextsShown(p, k) ==
    { t \in 1..Len(StatusTexts) :
        CASE p.kind = "endless" -> t \notin CompleteTexts
          [] p.kind = "completing" /\ k >= p.from -> t \in CompleteTexts
          [] OTHER -> TRUE }

\* line 275: whether reading the text may raise (the element went stale)
TextMayRaise(p) == p.kind # "endless"

\* lines 285-287: whether the load-more control is located and clicked
ClickOutcomes(p) == IF p.kind = "endless" THEN {TRUE} ELSE BOOLEAN

\* the slip of giving the loop an activation bound
LoaderLoopCapped(n) == n < 2

\* line 268: while True
LoaderLoop(n) == TRUE

HaltLoader(why) ==
    /\ lpc' = "halted"
    /\ exit' = why

\* line 253: find_element(status_xpath), inside try/except
FindStatus ==
    /\ pc = "loader" /\ lpc = "find"
    /\ Len(seen) < MaxChecks
    /\ scroll_count' = 0 /\ scrolled_px' = 0
    /\ IF LoaderLoop(clicks)
       THEN \E there \in StatusFound(page) :
                /\ found' = there
                /\ IF there THEN lpc' = "scroll" /\ exit' = exit
                            ELSE HaltLoader("not_visible")
       ELSE found' = found /\ HaltLoader("bound")
    /\ UNCHANGED <<in_view, seen, clicks, click_failed, parseVars,
                   priceVars, scoreVars, rankVars, page, stepVars>>

\* lines 259-262: one evaluation of the loop guard and, if it holds, the body
ScrollLoop ==
    /\ pc = "loader" /\ lpc = "scroll"
    /\ \E outcome \in ViewportOutcomes(page) :
           IF outcome = "raise"
           THEN /\ HaltLoader("raised")
                /\ UNCHANGED <<in_view, scroll_count, scrolled_px>>
           ELSE /\ in_view' = (outcome = "visible")
                /\ exit' = exit
                /\ IF ScrollAgain(in_view', scroll_count)
                   THEN /\ scroll_count' = scroll_count + 1
                        /\ scrolled_px' = scrolled_px + SCROLL_STEP
                        /\ lpc' = "scroll"
                   ELSE /\ lpc' = "check"
                        /\ UNCHANGED <<scroll_count, scrolled_px>>
    /\ UNCHANGED <<found, seen, clicks, click_failed, parseVars,
                   priceVars, scoreVars, rankVars, page, stepVars>>

\* lines 264-266 and 270-273: the element is returned only if it is in the
\* viewport now; otherwise the loop of the loader ends
FinalCheck ==
    /\ pc = "loader" /\ lpc = "check"
    /\ \E outcome \in ViewportOutcomes(page) :
           CASE outcome = "raise" -> HaltLoader("raised") /\ in_view' = in_view
             [] outcome = "visible" ->
                    in_view' = TRUE /\ lpc' = "read" /\ exit' = exit
             [] outcome = "hidden" ->
                    in_view' = FALSE /\ HaltLoader("not_visible")
    /\ UNCHANGED <<found, scroll_count, scrolled_px, seen, clicks, click_failed,
                   parseVars, priceVars, scoreVars, rankVars, page, stepVars>>

\* lines 275-281: read the status text and test it
ReadStatus ==
    /\ pc = "loader" /\ lpc = "read"
    /\ \/ \E t \in TextsShown(page, Len(seen) + 1) :
              /\ seen' = Append(seen, t)
              /\ IF t \in CompleteTexts
                 THEN HaltLoader("complete")
                 ELSE lpc' = "click" /\ exit' = exit
       \/ TextMayRaise(page) /\ HaltLoader("raised") /\ seen' = seen
    /\ UNCHANGED <<found, in_view, scroll_count, scrolled_px, clicks,
                   click_failed, parseVars, priceVars, scoreVars, rankVars, page, stepVars>>

\* lines 284-293: locate and click the load-more control, then sleep
ClickLoadMore ==
    /\ pc = "loader" /\ lpc = "click"
    /\ \E ok \in ClickOutcomes(page) :
           IF ok
           THEN /\ clicks' = clicks + 1
                /\ lpc' = "find"
                /\ UNCHANGED <<exit, click_failed>>
           ELSE /\ click_failed' = TRUE
                /\ HaltLoader(ClickFailure)
                /\ clicks' = clicks
    /\ UNCHANGED <<found, in_view, scroll_count, scrolled_px, seen, parseVars,
                   priceVars, scoreVars, rankVars, page, stepVars>>

(***************************************************************************)
(* jolly_selenium.py: adjust_room_count                                    *)
(*                                                                         *)
(* The control is the environment: a click on its dec or inc button        *)
(* changes the count it shows by one.  A wait may time out, which leaves   *)
(* the function with an exception.                                         *)
(***************************************************************************)
MaxAdults == 11      \* largest adult_count passed in
MaxShown == 4        \* largest count the control shows at first

MAX_ADULTS == 9

\* the slip of leaving out the cap
Uncapped(n) == n

\* lines 155-156
CappedAdults(n) == IF n > MAX_ADULTS THEN MAX_ADULTS ELSE n

\* line 189: the guard of the while loop
DecrementMore(shown) == shown > 1

\* line 200: range(adult_count - 1) has an i-th element
IncrementMore(i, n) == i < n - 1

InitAdults ==
    /\ apc = "cap"
    /\ requested \in 0..MaxAdults
    /\ adult_count = requested
    /\ displayed \in 1..MaxShown
    /\ initial_count = displayed
    /\ current_adult_count = 0 /\ inc_done = 0 /\ adult_clicks = <<>>
    /\ IdleDates /\ IdleParse /\ IdleLoader /\ page = IdlePage
    /\ IdlePrice /\ IdleScore /\ IdleRank

\* lines 155-156
CapAdults ==
    /\ apc = "cap"
    /\ adult_count' = CappedAdults(adult_count)
    /\ apc' = "open"
    /\ UNCHANGED <<requested, displayed, initial_count, current_adult_count,
                   inc_done, adult_clicks, dateVars, parseVars, loaderVars, page,
                   priceVars, scoreVars, rankVars>>

\* lines 159-166: open the dropdown, or the wait times out
OpenDropdown ==
    /\ apc = "open"
    /\ \E ok \in BOOLEAN : apc' = IF ok THEN "read" ELSE "raised"
    /\ UNCHANGED <<requested, adult_count, displayed, initial_count,
                   current_adult_count, inc_done, adult_clicks, dateVars,
                   parseVars, loaderVars, page, priceVars, scoreVars, rankVars>>

\* lines 183-189: read the count shown and test the guard of the while loop
ReadCount ==
    /\ apc = "read"
    /\ \E ok \in BOOLEAN :
           IF ok
           THEN /\ current_adult_count' = displayed
                /\ apc' = IF DecrementMore(current_adult_count')
                          THEN "dec" ELSE "inc"
           ELSE /\ apc' = "raised"
                /\ UNCHANGED current_adult_count
    /\ UNCHANGED <<requested, adult_count, displayed, initial_count, inc_done,
                   adult_clicks, dateVars, parseVars, loaderVars, page,
                   priceVars, scoreVars, rankVars>>

\* lines 190-197 and 189: one iteration of the while loop and its next guard
DecClick ==
    /\ apc = "dec"
    /\ \E ok \in BOOLEAN :
           IF ok
           THEN /\ displayed' = displayed - 1
                /\ adult_clicks' = Append(adult_clicks, "dec")
                /\ current_adult_count' = displayed'
                /\ apc' = IF DecrementMore(current_adult_count')
                          THEN "dec" ELSE "inc"
           ELSE /\ apc' = "raised"
                /\ UNCHANGED <<displayed, adult_clicks, current_adult_count>>
    /\ UNCHANGED <<requested, adult_count, initial_count, inc_done, dateVars,
                   parseVars, loaderVars, page, priceVars, scoreVars, rankVars>>

\* lines 200-205: one iteration of the for loop
IncClick ==
    /\ apc = "inc" /\ IncrementMore(inc_done, adult_count)
    /\ \E ok \in BOOLEAN :
           IF ok
           THEN /\ displayed' = displayed + 1
                /\ adult_clicks' = Append(adult_clicks, "inc")
                /\ inc_done' = inc_done + 1
                /\ apc' = apc
           ELSE /\ apc' = "raised"
                /\ UNCHANGED <<displayed, adult_clicks, inc_done>>
    /\ UNCHANGED <<requested, adult_count, initial_count, current_adult_count,
                   dateVars, parseVars, loaderVars, page,
                   priceVars, scoreVars, rankVars>>

\* line 200: the range is exhausted and the function returns
AdjustReturn ==
    /\ apc = "inc" /\ ~IncrementMore(inc_done, adult_count)
    /\ apc' = "done"
    /\ UNCHANGED <<requested, adult_count, displayed, initial_count,
                   current_adult_count, inc_done, adult_clicks, dateVars,
                   parseVars, loaderVars, page, priceVars, scoreVars, rankVars>>

NextAdults ==
    CapAdults \/ OpenDropdown \/ ReadCount \/ DecClick \/ IncClick \/ AdjustReturn

SpecAdults == InitAdults /\ [][NextAdults]_vars

(***************************************************************************)
(* jolly_selenium.py: select_dates                                         *)
(*                                                                         *)
(* The calendar is the environment: it opens on StartMonth of StartYear    *)
(* and a click on its forward control shows the next month; nothing else   *)
(* changes its header.  A wait may time out.                               *)
(***************************************************************************)
MaxMonths == 14      \* forward clicks that are explored

MonthNames == <<"Ocak", "Subat", "Mart", "Nisan", "Mayis", "Haziran", "Temmuz",
                "Agustos", "Eylul", "Ekim", "Kasim", "Aralik">>
YearTexts == <<"2025", "2026", "2027", "2028">>
StartMonth == 7

\* the header after the calendar has been paged forward i times
Header(i) ==
    <<MonthNames[((StartMonth - 1 + i) % 12) + 1],
      YearTexts[((StartMonth - 1 + i) \div 12) + 1]>>

\* the <<target_month, target_year>> select_dates is called with
Targets ==
    { <<"Temmuz", "2025">>, <<"Agustos", "2025">>, <<"Ocak", "2026">>,
      <<"Agustos", "2026">>, <<"Haziran", "2025">>, <<"agustos", "2025">>,
      <<"Agustos", "25">>, <<"8", "2025">> }

\* the slip of comparing the month only
HeaderMatchesMonth(shown, wanted) == shown[1] = wanted[1]

\* line 122: current_month == target_month and current_year == target_year
HeaderMatches(shown, wanted) == shown[1] = wanted[1] /\ shown[2] = wanted[2]

InitDates ==
    /\ dpc = "open"
    /\ target \in Targets
    /\ calendar = 0
    /\ current = <<"", "">>
    /\ day_clicks = <<>>
    /\ IdleAdults /\ IdleParse /\ IdleLoader /\ page = IdlePage
    /\ IdlePrice /\ IdleScore /\ IdleRank

\* lines 101-109: open the calendar, or a wait times out
OpenCalendar ==
    /\ dpc = "open"
    /\ \E ok \in BOOLEAN : dpc' = IF ok THEN "header" ELSE "raised"
    /\ UNCHANGED <<target, calendar, current, day_clicks, adultVars, parseVars,
                   loaderVars, page, priceVars, scoreVars, rankVars>>

\* lines 113-123: read the header and compare it with the target
ReadHeader ==
    /\ dpc = "header"
    /\ current' = Header(calendar)
    /\ dpc' = IF HeaderMatches(current', target) THEN "checkin" ELSE "next"
    /\ UNCHANGED <<target, calendar, day_clicks, adultVars, parseVars,
                   loaderVars, page, priceVars, scoreVars, rankVars>>

\* lines 126-129: click the forward control
NextMonth ==
    /\ dpc = "next"
    /\ calendar < MaxMonths
    /\ calendar' = calendar + 1
    /\ dpc' = "header"
    /\ UNCHANGED <<target, current, day_clicks, adultVars, parseVars,
                   loaderVars, page, priceVars, scoreVars, rankVars>>

\* line 126: the wait for the forward control times out
NextMonthRaises ==
    /\ dpc = "next"
    /\ dpc' = "raised"
    /\ UNCHANGED <<target, calendar, current, day_clicks, adultVars, parseVars,
                   loaderVars, page, priceVars, scoreVars, rankVars>>

\* lines 132-138: click the check-in day, or the wait times out
ClickCheckin ==
    /\ dpc = "checkin"
    /\ \E ok \in BOOLEAN :
           IF ok
           THEN /\ day_clicks' = Append(day_clicks,
                      [day |-> "checkin", shown |-> Header(calendar)])
                /\ dpc' = "checkout"
           ELSE dpc' = "raised" /\ UNCHANGED day_clicks
    /\ UNCHANGED <<target, calendar, current, adultVars, parseVars,
                   loaderVars, page, priceVars, scoreVars, rankVars>>

\* lines 141-147: click the check-out day, or the wait times out
ClickCheckout ==
    /\ dpc = "checkout"
    /\ \E ok \in BOOLEAN :
           IF ok
           THEN /\ day_clicks' = Append(day_clicks,
                      [day |-> "checkout", shown |-> Header(calendar)])
                /\ dpc' = "done"
           ELSE dpc' = "raised" /\ UNCHANGED day_clicks
    /\ UNCHANGED <<target, calendar, current, adultVars, parseVars,
                   loaderVars, page, priceVars, scoreVars, rankVars>>

NextDates ==
    \/ OpenCalendar \/ ReadHeader \/ NextMonth \/ NextMonthRaises
    \/ ClickCheckin \/ ClickCheckout

\* select_dates is sequential code: its next statement is always executed;
\* the fairness of NextMonth is that of a forward control that can be
\* clicked whenever the wait does not time out
SpecDates ==
    /\ InitDates /\ [][NextDates]_vars
    /\ WF_vars(OpenCalendar) /\ WF_vars(ReadHeader) /\ WF_vars(NextMonth)
    /\ WF_vars(ClickCheckin) /\ WF_vars(ClickCheckout)

\* the pages the loader is run against on its own
Pages ==
    {AnyPage, EndlessPage} \cup { Page("completing", k) : k \in 1..MaxChecks }

\* line 112 of jolly_spider.py: the loader is called on a result page
InitLoader ==
    /\ pc = "loader" /\ lpc = "find"
    /\ page \in Pages
    /\ failed_at = "none" /\ hotel_urls = -1 /\ visited = 0 /\ yielded = 0
    /\ quit = FALSE /\ detail_data = <<>>
    /\ exit = "none" /\ found = FALSE /\ in_view = FALSE
    /\ scroll_count = 0 /\ scrolled_px = 0 /\ seen = <<>> /\ clicks = 0
    /\ click_failed = FALSE
    /\ IdleAdults /\ IdleDates
    /\ IdlePrice /\ IdleScore /\ IdleRank

NextLoader ==
    FindStatus \/ ScrollLoop \/ FinalCheck \/ ReadStatus \/ ClickLoadMore

\* the loader is sequential code: its next statement is always executed
SpecLoader == InitLoader /\ [][NextLoader]_vars /\ WF_vars(NextLoader)

(***************************************************************************)
(* jolly_spider.py: JollySpider.parse                                      *)
(***************************************************************************)
FormSteps == <<"open_site", "set_destination", "select_dates",
               "adjust_room_count", "click_search">>

StepAfter(step) ==
    IF step = "click_search" THEN "loader"
    ELSE FormSteps[1 + CHOOSE i \in 1..Len(FormSteps) : FormSteps[i] = step]

InFormStep == \E i \in 1..Len(FormSteps) : FormSteps[i] = pc

Init ==
    /\ pc = "open_site" /\ failed_at = "none"
    /\ hotel_urls = -1 /\ visited = 0 /\ yielded = 0 /\ quit = FALSE
    /\ detail_data = <<>>
    /\ IdleLoader /\ page = AnyPage
    /\ IdleAdults /\ IdleDates
    /\ IdlePrice /\ IdleScore /\ IdleRank

\* lines 84-104: a step of the search form completes
FormStep ==
    /\ InFormStep
    /\ pc' = StepAfter(pc)
    /\ lpc' = IF pc' = "loader" THEN "find" ELSE lpc
    /\ UNCHANGED <<failed_at, hotel_urls, visited, yielded, quit, detail_data,
                   exit, found, in_view, scroll_count, scrolled_px, seen, clicks,
                   click_failed, priceVars, scoreVars, rankVars, page, stepVars>>

\* lines 84-101: a wait of a form step times out; nothing catches it
FormStepRaises ==
    /\ InFormStep
    /\ pc' = "failed" /\ failed_at' = pc
    /\ UNCHANGED <<hotel_urls, visited, yielded, quit, detail_data, loaderVars,
                   priceVars, scoreVars, rankVars, page, stepVars>>

\* line 112: the loader returns to parse(), or its exception leaves parse();
\* the loader's locals are gone
LoaderReturn ==
    /\ pc = "loader" /\ lpc = "halted"
    /\ IF exit = "raised"
       THEN pc' = "failed" /\ failed_at' = "loader"
       ELSE pc' = "collect" /\ failed_at' = failed_at
    /\ lpc' = "returned"
    /\ scroll_count' = 0 /\ scrolled_px' = 0 /\ seen' = <<>> /\ clicks' = 0
    /\ UNCHANGED <<hotel_urls, visited, yielded, quit, detail_data, exit, found,
                   in_view,
                   click_failed, priceVars, scoreVars, rankVars, page, stepVars>>

\* lines 115-130: the urls of the listings the page shows now
CollectUrls ==
    /\ pc = "collect"
    /\ \E n \in 0..MaxUrls : hotel_urls' = n
    /\ pc' = "details"
    /\ UNCHANGED <<failed_at, visited, yielded, quit, detail_data, loaderVars,
                   priceVars, scoreVars, rankVars, page, stepVars>>

\* what a detail page lets parse_hotel_details do: build the record; find no
\* "Genel Bilgiler" tab; never show the price element; have no cancel-policy
\* badge
DetailPages == {"record", "no_tab", "price_timeout", "no_cancel_policy"}

\* lines 157-254: what parse_hotel_details gives on such a page.  The wait
\* of lines 161-167 and the find_element of lines 171-173 are outside any
\* try block; the click of lines 190-198 is inside one that returns None
parse_hotel_details(detail_page) ==
    CASE detail_page = "record" -> "dict"
      [] detail_page = "no_tab" -> "None"
      [] detail_page = "price_timeout" -> "TimeoutException"
      [] detail_page = "no_cancel_policy" -> "NoSuchElementException"

IsException(result) == result \in {"TimeoutException", "NoSuchElementException"}

\* the slip of yielding whatever parse_hotel_details returned
YieldsAnyReturn(result) == ~IsException(result)

\* line 136: if detail_data
Yields(result) == result = "dict"

\* the slip of closing the browser inside the loop
LoopOverEarly(done, urls) == done <= urls

\* line 133: the for loop has gone through hotel_urls
LoopOver(done, urls) == done = urls

\* lines 133-137: one iteration of the loop over hotel_urls
VisitDetail ==
    /\ pc = "details" /\ ~LoopOver(visited, hotel_urls)
    /\ \E detail_page \in DetailPages :
           LET result == parse_hotel_details(detail_page)
           IN  /\ visited' = visited + 1
               /\ detail_data' = Append(detail_data, result)
               /\ yielded' = IF Yields(result) THEN yielded + 1 ELSE yielded
               /\ IF IsException(result)
                  THEN pc' = "failed" /\ failed_at' = "details"
                  ELSE UNCHANGED <<pc, failed_at>>
    /\ UNCHANGED <<hotel_urls, quit, loaderVars, priceVars, scoreVars, rankVars,
                   page, stepVars>>

\* lines 139-141: bot.close()
CloseBrowser ==
    /\ pc = "details" /\ LoopOver(visited, hotel_urls)
    /\ quit' = TRUE
    /\ pc' = "done"
    /\ UNCHANGED <<failed_at, hotel_urls, visited, yielded, detail_data, loaderVars,
                   priceVars, scoreVars, rankVars, page, stepVars>>

Next ==
    \/ FormStep \/ FormStepRaises
    \/ FindStatus \/ ScrollLoop \/ FinalCheck \/ ReadStatus \/ ClickLoadMore
    \/ LoaderReturn \/ CollectUrls \/ VisitDetail \/ CloseBrowser

Spec == Init /\ [][Next]_vars

(***************************************************************************)
(* Properties of the loader                                                *)
(***************************************************************************)
\* status text t, case-folded, shows the completion phrase
ShowsCompletion(t) ==
    LET low == Lower(StatusTexts[t])
    IN  \E i \in 1..Len(low) :
            /\ i + Len(COMPLETION) - 1 <= Len(low)
            /\ SubSeq(low, i, i + Len(COMPLETION) - 1) = COMPLETION

NotComplete == { i \in 1..Len(seen) : ~ShowsCompletion(seen[i]) }

\* C1: with the status in view at every check and the load-more control
\* clickable, the loader activates load-more once for each status text that
\* does not show the completion phrase and halts at the first text that
\* does: k activations for k such texts, and none after the phrase was read.
C1_ActivationsThenHalt ==
    /\ clicks <= Cardinality(NotComplete)
    /\ (\E i \in 1..Len(seen) : ShowsCompletion(seen[i])) =>
           /\ lpc = "halted" /\ exit = "complete"
           /\ NotComplete = 1..(Len(seen) - 1)
           /\ clicks = Len(seen) - 1
    /\ (lpc = "halted" /\ exit = "complete") => ShowsCompletion(seen[Len(seen)])

C1_Witness ==
    /\ lpc = "halted" /\ exit = "complete"
    /\ seen = <<1, 1, 3>>
    /\ clicks = 2

\* C2: when the status element is not found, or is not in view after the
\* visibility search, the loader halts without raising, having scrolled at
\* most 50 times by 550 pixels in that search and without a load-more
\* activation in that iteration; it reads the status only when it is in view.
C2_NotVisibleHalts ==
    /\ scroll_count <= 50
    /\ scrolled_px = 550 * scroll_count
    /\ lpc \in {"read", "click"} => (found /\ in_view)
    /\ (lpc = "halted" /\ exit = "not_visible") =>
           /\ ~found \/ ~in_view
           /\ clicks = Len(seen)
    /\ exit = "not_visible" =>
           /\ failed_at # "loader"
           /\ pc \in {"loader", "collect", "details", "done", "failed"}
           /\ pc = "loader" => lpc = "halted"

C2_Witness ==
    /\ lpc = "halted" /\ exit = "not_visible"
    /\ found /\ ~in_view
    /\ scroll_count = 50
    /\ clicks = 1

\* C3: a load-more control that cannot be located or clicked, under a status
\* that is in view and not complete, ends the loader's loop without an
\* error; parse() then reads the listings of the page as rendered and visits
\* their detail pages.
C3_StuckState ==
    click_failed =>
        /\ exit = "stuck"
        /\ failed_at # "loader"
        /\ pc \in {"loader", "collect", "details", "done", "failed"}
        /\ pc = "loader" =>
               /\ lpc = "halted" /\ in_view
               /\ seen # <<>> /\ ~ShowsCompletion(seen[Len(seen)])
               /\ clicks = Len(seen) - 1
        /\ pc \in {"details", "done"} => (hotel_urls >= 0 /\ visited <= hotel_urls)
        /\ pc = "done" => (visited = hotel_urls /\ quit)

C3_StuckIsNotFailure ==
    /\ []C3_StuckState
    /\ [][(pc = "loader" /\ lpc = "halted" /\ exit = "stuck") => pc' = "collect"]_vars
    /\ [][(pc = "collect" /\ exit = "stuck") => (pc' = "details" /\ hotel_urls' >= 0)]_vars

C3_Witness ==
    /\ click_failed /\ exit = "stuck"
    /\ pc = "done" /\ quit
    /\ visited = 2 /\ yielded = 2

(***************************************************************************)
(* Properties of the ranking pipeline                                      *)
(***************************************************************************)
\* C4: the result set of close_spider has exactly min(n, 10) records, each
\* one of the n accumulated records.
C4_ResultSize ==
    pipeline = "closed" =>
        /\ Len(top_10_hotels) = (IF Len(hotels) < 10 THEN Len(hotels) ELSE 10)
        /\ \A i \in 1..Len(top_10_hotels) :
               \E j \in 1..Len(hotels) : top_10_hotels[i] = hotels[j]
        /\ \A i, j \in 1..Len(top_10_hotels) :
               top_10_hotels[i] = top_10_hotels[j] => i = j

C4_Witness ==
    /\ pipeline = "closed"
    /\ Len(hotels) = 11
    /\ Len(top_10_hotels) = 10

\* a == b on floats: false when either is nan
FEq(a, b) == a.t # "nan" /\ b.t # "nan" /\ ~FLt(a, b) /\ ~FLt(b, a)

\* C5: the result set is ordered by non-increasing final_score, records of
\* equal final_score keep the order in which process_item received them, and
\* no record left out has a strictly higher final_score than a record kept.
C5_RankedOrder ==
    pipeline = "closed" =>
        /\ \A i, j \in 1..Len(top_10_hotels) :
               i < j => \/ FLt(Key(top_10_hotels[j]), Key(top_10_hotels[i]))
                        \/ FEq(Key(top_10_hotels[j]), Key(top_10_hotels[i]))
        /\ \A i, j \in 1..Len(top_10_hotels) :
               (i < j /\ FEq(Key(top_10_hotels[i]), Key(top_10_hotels[j])))
                   => top_10_hotels[i].detail_page_url < top_10_hotels[j].detail_page_url
        /\ \A k \in 1..Len(hotels) : \A i \in 1..Len(top_10_hotels) :
               (\A j \in 1..Len(top_10_hotels) : top_10_hotels[j] # hotels[k])
                   => ~FLt(Key(top_10_hotels[i]), Key(hotels[k]))

\* the same three properties hold of every run in which no price is "nan"
RankedOrderOfNumbers ==
    (\A k \in 1..Len(hotels) : hotels[k].price # Str(<<"n", "a", "n">>))
        => C5_RankedOrder

(***************************************************************************)
(* Properties of parse_price                                               *)
(***************************************************************************)
IsDigits(s, lo, hi) == lo <= hi /\ \A i \in lo..hi : s[i] \in DigitChars

\* t has the shape D.DDD,DD TL: a leading group of one to three digits, any
\* number of dot-separated groups of three digits, a comma, two digits, " TL"
WellFormedPrice(t) ==
    /\ Len(t) >= 7
    /\ SubSeq(t, Len(t) - 2, Len(t)) = TL
    /\ t[Len(t) - 5] = ","
    /\ IsDigits(t, Len(t) - 4, Len(t) - 3)
    /\ LET m == Len(t) - 6         \* the integer part is t[1..m]
       IN  /\ m >= 1
           /\ t[1] \in DigitChars
           \* counted from the comma, every fourth character is a dot and
           \* every other one a digit
           /\ \A i \in 1..m : IF (m - i) % 4 = 3 THEN t[i] = "."
                                                  ELSE t[i] \in DigitChars

\* the number the text denotes: the dots left out, the comma a decimal point
DenotedValue(t) ==
    LET m    == Len(t) - 6
        ints == SelectSeq(SubSeq(t, 1, m), LAMBDA c : c # ".")
        frac == SubSeq(t, Len(t) - 4, Len(t) - 3)
    IN  Rat(100 * DigitsVal(ints) + DigitsVal(frac), 100)

\* C8: a well-formed "D.DDD,DD TL" text parses to the number it denotes
\* (thousands dots removed, comma read as the decimal point), and a text of
\* digits only parses to the value of that single segment.
C8_WellFormedValue ==
    (price_out # Pending /\ price_str.k = "str") =>
        /\ WellFormedPrice(price_str.s) => price_out = DenotedValue(price_str.s)
        /\ IsDigits(price_str.s, 1, Len(price_str.s)) =>
               price_out = Rat(DigitsVal(price_str.s), 1)

C8_Witness ==
    /\ price_str = Str(<<"4", "3", ".", "9", "9", "0", ",", "0", "0", " ", "T", "L">>)
    /\ price_out = Rat(43990, 1)

\* C9: parse_price never raises: its outcome is always a float, and it is
\* exactly 0.0 for a missing value, for the empty text, whenever float()
\* rejects the cleaned text, and so for every text that holds neither a digit
\* nor the letter n (of nan, inf).
C9_NeverRaises ==
    price_out # Pending =>
        /\ price_out.t \in {"num", "nan", "inf"}
        /\ (price_str.k # "str" \/ price_str.s = <<>>) => price_out = Zero
        /\ (price_str.k = "str" /\ PyFloat(Cleaned(price_str.s)).t = "raised")
               => price_out = Zero
        /\ (price_str.k = "str" /\ \A i \in 1..Len(price_str.s) :
                                       price_str.s[i] \notin DigitChars \cup {"n", "N"})
               => price_out = Zero

C9_Witness ==
    /\ price_str = Str(<<"a", "b", "c">>)
    /\ PyFloat(Cleaned(price_str.s)) = Raised("ValueError")
    /\ price_out = Zero

(***************************************************************************)
(* Properties of the scorer                                                *)
(***************************************************************************)
\* the fields on which the scorer calls str operations hold text (or are
\* not in the dict), as in every record parse_hotel_details builds
TextFields(h) ==
    /\ h.cancel_policy.k # "none"
    /\ h.accommodation_types.k # "none"

\* C6: the final score is a finite number obtained by dividing by a divisor
\* greater than zero, whatever the price text.
C6_FiniteScore ==
    (final_out # Pending /\ TextFields(hotel)) =>
        /\ FGtZero(price_val(hotel))
        /\ final_out.t = "num"

\* the price is missing, empty, unparsable or parses to a value <= 0
BadPrice(h) ==
    LET p == Get(h.price, Str(<<>>))
    IN  \/ p.k = "none"
        \/ p.s = <<>>
        \/ PyFloat(Cleaned(p.s)).t = "raised"
        \/ FLeZero(PyFloat(Cleaned(p.s)))

\* C7: for a price that is missing, empty, unparsable or <= 0 the final
\* score equals the base score.
C7_BadPriceKeepsBase ==
    (final_out # Pending /\ TextFields(hotel) /\ BadPrice(hotel)) =>
        final_out = compute_base_score(hotel)

C7_Witness ==
    /\ hotel.price = Str(<<"-", "5", ",", "5", "0", " ", "T", "L">>)
    /\ final_out.t = "num" /\ final_out.n > 0
    /\ base_out = final_out

\* the category phrases in their order of precedence, with their
\* contributions in hundredths
CategoryPhrases ==
    << <<ULTRA_HER_SEY, 200>>, <<HER_SEY, 150>>, <<YARIM_PANSIYON, 100>>,
       <<ODA_KAHVALTI, 50>>, <<SADECE_ODA, 30>> >>

\* the four contributions of the claim, in hundredths
CancelPart(h) ==
    IF h.cancel_policy.k = "str" /\ Contains(RISKSIZ, h.cancel_policy.s)
    THEN 100 ELSE 0

RecommendPart(h) == IF h.recomended_hotel.k = "str" THEN 100 ELSE 0

TokenCount(v) ==
    IF v.k = "str" /\ v.s # <<>>
    THEN 1 + Cardinality({ i \in 1..Len(v.s) : v.s[i] = "," })
    ELSE 0

FeaturePart(h) == 5 * TokenCount(h.hotel_features)

CategoryPart(h) ==
    LET text    == IF h.accommodation_types.k = "str"
                   THEN Lower(h.accommodation_types.s) ELSE <<>>
        matches == { i \in 1..5 : Contains(CategoryPhrases[i][1], text) }
    IN  IF matches = {} THEN 0
        ELSE CategoryPhrases[CHOOSE i \in matches : \A j \in matches : i <= j][2]

\* a >= b for finite a, b
FGe(a, b) == a.n * b.d >= b.n * a.d

\* C10: the base score is the sum of the four independent contributions,
\* the category contributing only for the first phrase that matches, and it
\* does not decrease when the feature list gets more tokens.
C10_BaseScoreSum ==
    (base_out # Pending /\ TextFields(hotel)) =>
        /\ base_out = Rat(CancelPart(hotel) + RecommendPart(hotel)
                            + FeaturePart(hotel) + CategoryPart(hotel), 100)
        /\ \A f \in FeatureLists :
               TokenCount(f) >= TokenCount(hotel.hotel_features) =>
                   FGe(compute_base_score([hotel EXCEPT !.hotel_features = f]),
                       base_out)

C10_Witness ==
    /\ hotel.accommodation_types =
           Str(<<"U", "l", "t", "r", "a", " ", "H", "e", "r", " ",
                 "S-cedilla", "e", "y", " ", "D", "a", "h", "i", "l">>)
    /\ hotel.hotel_features = Str(FeatureText(2))
    /\ hotel.recomended_hotel = Str(<<"x">>)
    /\ Contains(RISKSIZ, hotel.cancel_policy.s)
    /\ base_out = Rat(410, 100)

\* C11: compute_base_score and compute_final_score have no error outcome:
\* for every record, also one in which a field is not in the dict or is
\* None, both return a number.
C11_NoErrorOutcome ==
    /\ base_out.t # "raised"
    /\ final_out.t # "raised"

\* the scorer raises exactly for a None cancellation policy or category; a
\* field left out of the dict, a None price, marker or feature list
\* contribute zero.
ErrorOnlyOnNullText ==
    /\ base_out # Pending => (base_out.t = "raised" <=> ~TextFields(hotel))
    /\ final_out # Pending => (final_out.t = "raised" <=> ~TextFields(hotel))
    /\ (base_out # Pending /\ hotel.cancel_policy.k = "none") =>
           base_out = Raised("TypeError")
    /\ (base_out # Pending /\ hotel.cancel_policy.k # "none"
            /\ hotel.accommodation_types.k = "none") =>
           base_out = Raised("AttributeError")

(***************************************************************************)
(* Properties of the detail visits and of the browser session              *)
(***************************************************************************)
\* C12: when the price element of a detail page does not appear within the
\* wait, only that identifier is given up: the run has not failed, every
\* remaining identifier is visited and the browser is closed at the end.
C12_PriceTimeoutSkipsOne ==
    \A i \in 1..Len(detail_data) :
        detail_data[i] = "TimeoutException" =>
            /\ pc \in {"details", "done"}
            /\ pc = "done" => (visited = hotel_urls /\ quit)

\* the timeout of the price wait ends parse(): it is the last visit, later
\* identifiers are not visited and the browser is not closed
PriceTimeoutEndsRun ==
    \A i \in 1..Len(detail_data) :
        detail_data[i] = "TimeoutException" =>
            /\ i = Len(detail_data)
            /\ pc = "failed" /\ failed_at = "details"
            /\ ~quit

\* the records parse_hotel_details has returned so far
Records == { i \in 1..Len(detail_data) : detail_data[i] = "dict" }

\* C13: a detail page without the "Genel Bilgiler" tab makes
\* parse_hotel_details return None, no record is yielded for it, and the
\* loop goes on with the next identifier; the records yielded never
\* outnumber the identifiers visited.
C13_NoTabSkipsOne ==
    /\ visited = Len(detail_data)
    /\ yielded = Cardinality(Records)
    /\ yielded <= visited
    /\ \A i \in 1..Len(detail_data) :
           detail_data[i] = "None" =>
               /\ pc \in {"details", "done", "failed"}
               /\ pc = "failed" => i < Len(detail_data)
               /\ (pc = "details" /\ i = Len(detail_data) /\ i < hotel_urls) =>
                      ENABLED VisitDetail
    /\ pc = "done" => visited = hotel_urls

C13_Witness ==
    /\ detail_data = <<"None", "dict">>
    /\ yielded = 1
    /\ pc = "done"

\* C17: a run without an uncaught failure quits the browser exactly once,
\* after the loader has halted and after the last detail visit, and nothing
\* follows the quit; a run ended by an uncaught failure never quits it.
C17_SessionReleased ==
    /\ [](quit <=> pc = "done")
    /\ [](quit => (lpc = "returned" /\ exit # "none" /\ failed_at = "none"
                      /\ hotel_urls >= 0 /\ visited = hotel_urls))
    /\ [](pc = "failed" => (~quit /\ failed_at # "none"))
    /\ [][~quit]_vars
    /\ [][pc = "failed" => pc' = "failed"]_vars

C17_Witness ==
    /\ quit /\ pc = "done"
    /\ hotel_urls = 2 /\ visited = 2
    /\ exit = "complete"

(***************************************************************************)
(* Termination of the loader                                               *)
(***************************************************************************)
Halted == lpc = "halted"

\* the last status text read shows the completion phrase
\* the status texts that show the completion phrase
PhraseTexts == { t \in 1..Len(StatusTexts) : ShowsCompletion(t) }

CompletionRead == seen # <<>> /\ seen[Len(seen)] \in PhraseTexts

\* C14: the loader has no activation bound of its own.  Its loop ends only
\* by reading the completion phrase, by a status that is not found or not
\* brought into view, or by a failing load-more click (or it is left by an
\* exception); it ends on every page that shows the completion phrase from
\* some reading on, and on a page that keeps the status visible, never shows
\* the phrase and keeps the control clickable it never ends, however many
\* activations it has made.
C14_HaltsOnlyByExit ==
    /\ [](Halted <=> exit # "none")
    /\ [](exit \in {"none", "complete", "not_visible", "stuck", "raised"})
    /\ [](exit = "complete" <=> CompletionRead)
    /\ [](exit = "stuck" <=> click_failed)
    /\ [](exit = "not_visible" => (~found \/ ~in_view))
    /\ [][clicks' = clicks + 1 => (lpc' = "find" /\ exit' = "none")]_vars
    /\ (page.kind = "completing") ~> Halted
    /\ [](page = EndlessPage => ~Halted)
    /\ (page = EndlessPage) ~> (clicks = MaxChecks /\ lpc = "find")

C14_Witness ==
    /\ page = EndlessPage
    /\ clicks = MaxChecks /\ Len(seen) = MaxChecks
    /\ lpc = "find" /\ exit = "none"

(***************************************************************************)
(* Properties of the form steps                                            *)
(***************************************************************************)
Decs == { i \in 1..Len(adult_clicks) : adult_clicks[i] = "dec" }
Incs == { i \in 1..Len(adult_clicks) : adult_clicks[i] = "inc" }

\* C15: from a displayed count c >= 1 and for a requested count n >= 1,
\* adjust_room_count clicks dec exactly c - 1 times, reaching 1, and only
\* then inc exactly min(n, 9) - 1 times, with no dec after the first inc;
\* it leaves the count at min(n, 9) and the count never exceeds 9.
C15_DownToOneThenUp ==
    requested >= 1 =>
        /\ displayed >= 1 /\ displayed <= 9
        /\ \A i \in Incs : \A j \in Decs : j < i
        /\ Cardinality(Decs) <= initial_count - 1
        /\ Cardinality(Incs) <= Min(requested, 9) - 1
        /\ apc \in {"inc", "done"} => Cardinality(Decs) = initial_count - 1
        /\ Incs # {} => (apc \in {"inc", "done", "raised"}
                            /\ Cardinality(Decs) = initial_count - 1)
        /\ (apc = "inc" /\ Incs = {}) => displayed = 1
        /\ displayed = initial_count - Cardinality(Decs) + Cardinality(Incs)
        /\ apc = "done" =>
               /\ Cardinality(Incs) = Min(requested, 9) - 1
               /\ displayed = Min(requested, 9)

C15_Witness ==
    /\ apc = "done"
    /\ requested = 11 /\ initial_count = 3
    /\ adult_clicks = <<"dec", "dec", "inc", "inc", "inc", "inc",
                        "inc", "inc", "inc", "inc">>
    /\ displayed = 9

\* the calendar never shows the target, however far it is paged
NeverShown == \A i \in 0..MaxMonths : Header(i) # target

\* C16: select_dates clicks a day cell only while the calendar shows exactly
\* the target month and year, check-in before check-out; while the header
\* differs it pages one month per step with no bound on the steps, so on a
\* calendar that never shows the target it never reaches the day selection
\* and never returns.
C16_ClickOnlyOnTarget ==
    /\ [](\A i \in 1..Len(day_clicks) : day_clicks[i].shown = target)
    /\ [](dpc \in {"checkin", "checkout", "done"} => Header(calendar) = target)
    /\ [](/\ Len(day_clicks) <= 2
          /\ Len(day_clicks) >= 1 => day_clicks[1].day = "checkin"
          /\ Len(day_clicks) = 2 => day_clicks[2].day = "checkout"
          /\ dpc = "done" => Len(day_clicks) = 2)
    /\ [][(dpc = "next" /\ dpc' # "raised") =>
              (calendar' = calendar + 1 /\ dpc' = "header")]_vars
    /\ [](NeverShown => (day_clicks = <<>>
                           /\ dpc \in {"open", "header", "next", "raised"}))
    /\ NeverShown ~> (dpc = "raised" \/ (dpc = "next" /\ calendar = MaxMonths))
    /\ ~NeverShown ~> (dpc \in {"done", "raised"})

C16_Witness ==
    /\ dpc = "done"
    /\ target = <<"Agustos", "2026">>
    /\ calendar = 13
    /\ Len(day_clicks) = 2

====
